---- MODULE Spec2Model ----
(***************************************************************************)
(* SignalEmitter / SignalController of src/src/index.ts as a state         *)
(* machine.  The registry is the private Map #listeners (signal name ->    *)
(* insertion-ordered Set of listener functions), the fire-once mark is the *)
(* ONCE_SYMBOL property of the listener function itself, and a dispatch    *)
(* (SignalEmitter[EMIT]) is a live iteration over the Set of the emitted   *)
(* signal, so it is modelled step by step: listener bodies run between the *)
(* steps and may call emitter.on / emitter.off.                            *)
(*                                                                         *)
(* Scope: one emit is in progress at a time (a listener body does not call *)
(* controller.emit), listener bodies reach the emitter (on, off) and not   *)
(* the controller, a listener replayed inline by on() only returns or      *)
(* throws, and one promise of once() and one stream of                     *)
(* createReadableStream() are followed.                                    *)
(***************************************************************************)
EXTENDS Integers, Sequences, FiniteSets, TLC

Signals == {"s1", "s2"}
\* Listener functions of the user of the library.
Listeners == {"L1", "L2"}
\* The closure once() subscribes and the closure createReadableStream() subscribes.
Resolver == "P"
Enqueuer == "R"
AllListeners == Listeners \cup {Resolver, Enqueuer}
\* Argument tuples of emit.
Args == {<<1>>, <<2, 3>>}

\* At most MaxCalls listener invocations are followed inside one emit call.
MaxCalls == 3
\* At most MaxBodyOps emitter calls are made by the listener bodies of one emit call.
MaxBodyOps == 2
\* At most MaxChunks chunks are followed in the queue of the readable stream.
MaxChunks == 2

VARIABLES
    listeners,       \* SignalEmitter.#listeners: signal name -> sequence (Set in insertion order)
    onceSymbol,      \* listener[ONCE_SYMBOL], one flag per listener function
    immediate,       \* whether #lastArgs exists (constructor option immediate)
    lastArgs,        \* SignalEmitter.#lastArgs: signal name -> last emitted arguments
    optionsOnError,  \* SignalController.options.onError
    onError,         \* SignalController.onError (public field)
    destroyed,       \* destroy() has run its two assignments (emit, emitter.on)
    promise,         \* the promise of once(): <<"none">>, <<"pending">>, <<"resolved", value>>
    chunks,          \* the queue of the stream of createReadableStream()
    streamOpen,      \* createReadableStream() has been called
    pc,              \* "idle"; "body": a listener body of the emit in progress is running;
                     \* "done": emit has its outcome and is about to return to its caller
    signalName,      \* the emit in progress: its signal
    args,            \* the emit in progress: its arguments
    iterIdx,         \* entries of the Set the iterator of listeners.values() has passed
    iterLive,        \* the iterated Set is still the one stored in #listeners
    cur,             \* the listener whose body is running
    bodyOps,         \* emitter calls made so far by the listener bodies of this emit
    errors,          \* values thrown by listeners in this dispatch (a listener throws its own name)
    lastCall,        \* the last call made by the user of the library, outside any listener
    ret,             \* what the last emit returned: "none", "true", "false"
    raised,          \* the last call threw to its caller
    warned,          \* the last call printed the "Ignoring ..." warning of a destroyed controller
    called,          \* listener invocations of the dispatch: <<listener, args, outcome>>
    reports,         \* error callback invocations of emit: <<callback, error, signal, args>>
    fallback,        \* failures of the error callback that emit caught and logged
    replayed,        \* the inline invocation made by the on() call that just returned: <<listener, args>>
    stable,          \* listeners registered when emit was called, not removed and not added anew since
    handlers,        \* 'abort' listeners waiting on AbortSignals: <<token, signal name, listener>>
    aborted,         \* the AbortControllers that have been aborted
    recording        \* the invocations of a dispatch and the calls of its bodies are logged

state == <<listeners, onceSymbol, immediate, lastArgs, optionsOnError, onError, destroyed,
           promise, chunks, streamOpen>>
frame == <<pc, signalName, args, iterIdx, iterLive, cur, bodyOps, errors>>
obs == <<lastCall, ret, raised, warned, called, reports, fallback, replayed, stable>>
tokens == <<handlers, aborted>>
vars == <<state, frame, obs, tokens, recording>>

EmptyMap == [k \in {} |-> <<>>]

NoSignal == "-"
NoArgs == <<>>
NoListener == "-"

\* The AbortSignal given to on() as options.signal, the one given to once(), and
\* the one createReadableStream() makes for its stream.
Tokens == {"signal", "wait", "aborter"}
NoToken == "-"

\* The 'abort' listener of once(): reason => reject(reason).
Rejecter == "reject"

\* ---------------------------------------------------------------- Map and Set

\* Map.prototype.delete
MapDelete(m, k) == [x \in DOMAIN m \ {k} |-> m[x]]

\* Map.prototype.set
MapSet(m, k, v) == (k :> v) @@ m

\* The members of a Set kept as a sequence in insertion order.
Members(seq) == {seq[i] : i \in 1..Len(seq)}

\* A list that takes the listener again.
SetAddAlways(seq, l) == Append(seq, l)

\* Set.prototype.add: a value already present keeps its place.
SetAdd(seq, l) == IF l \in Members(seq) THEN seq ELSE Append(seq, l)

\* Set.prototype.delete
SetDelete(seq, l) == SelectSeq(seq, LAMBDA x : x # l)

\* Position of l in the Set, 0 when absent.
Pos(seq, l) == IF l \in Members(seq) THEN CHOOSE i \in 1..Len(seq) : seq[i] = l ELSE 0

\* The listeners registered for signal s.
Registered(m, s) == IF s \in DOMAIN m THEN Members(m[s]) ELSE {}

\* ---------------------------------------------------------------- SignalEmitter

\* on(), "Add listener to the list".
OnListeners(m, s, l) ==
    IF s \in DOMAIN m THEN [m EXCEPT ![s] = SetAdd(m[s], l)] ELSE MapSet(m, s, <<l>>)

\* on(), "Handles `once` option": Object.defineProperty(listener, ONCE_SYMBOL, {value: true}).
OnOnce(f, l, isOnce) == IF isOnce THEN [f EXCEPT ![l] = TRUE] ELSE f

\* off(): delete listener[ONCE_SYMBOL], before the registry is looked at.
OffOnce(f, l) == [f EXCEPT ![l] = FALSE]

\* An off() that leaves an emptied Set in the Map.
OffListenersKeepEmpty(m, s, l) ==
    IF s \notin DOMAIN m THEN m ELSE [m EXCEPT ![s] = SetDelete(m[s], l)]

\* off(): the registry after the listener is deleted; an emptied Set leaves the Map.
OffListeners(m, s, l) ==
    IF s \notin DOMAIN m THEN m
    ELSE IF Len(SetDelete(m[s], l)) = 0 THEN MapDelete(m, s)
    ELSE [m EXCEPT ![s] = SetDelete(m[s], l)]

\* A dispatch that walks a position in a copy of the Set taken at its start:
\* deleting an entry behind the position makes it skip the next one.
OffIterIdxStale(m, s, l, i) == i

\* The Set iterator of a dispatch on signal s after off(s, l): deleting an entry
\* the iterator has passed leaves it at the same following entry.
OffIterIdx(m, s, l, i) ==
    IF s \in DOMAIN m /\ Pos(m[s], l) # 0 /\ Pos(m[s], l) <= i THEN i - 1 ELSE i

\* [CLEAR_SIGNAL]: forEach listener of the signal, off(signalName, listener).
RECURSIVE ClearSignalFold(_, _, _)
ClearSignalFold(m, s, ls) ==
    IF Len(ls) = 0 THEN m ELSE ClearSignalFold(OffListeners(m, s, Head(ls)), s, Tail(ls))

\* A loop that stops after the first listener.
ClearSignalFirstOnly(m, s) == IF s \in DOMAIN m THEN OffListeners(m, s, m[s][1]) ELSE m

ClearSignalListeners(m, s) == IF s \in DOMAIN m THEN ClearSignalFold(m, s, m[s]) ELSE m

ClearSignalOnce(m, f, s) == [l \in DOMAIN f |-> IF l \in Registered(m, s) THEN FALSE ELSE f[l]]

\* Object.keys(this.#listeners): the own enumerable string-keyed properties of
\* the Map object.  The entries of a Map are not properties of it.
ObjectKeys(m) == {}

\* [CLEAR_ALL_SIGNALS]: Object.keys(this.#listeners).forEach(key => this[CLEAR_SIGNAL](key)).
RECURSIVE ClearAllFold(_, _)
ClearAllFold(m, keys) ==
    IF keys = {} THEN m
    ELSE LET k == CHOOSE x \in keys : TRUE
         IN ClearAllFold(ClearSignalListeners(m, k), keys \ {k})

ClearAllListeners(m) == ClearAllFold(m, ObjectKeys(m))

ClearAllOnce(m, f) ==
    [l \in DOMAIN f |-> IF \E k \in ObjectKeys(m) : l \in Registered(m, k) THEN FALSE ELSE f[l]]

\* A cache that keeps the arguments of the first emission of a signal.
SaveFirstArgs(imm, la, s, a) == IF imm /\ s \notin DOMAIN la THEN MapSet(la, s, a) ELSE la

\* An on() that ignores options.signal.
OnSignalIgnored(hs, ab, token, s, l) == hs

\* on(), "Handles `signal` option": options?.signal?.addEventListener('abort',
\* () => this.off(signalName, listener), {once: true}).  An AbortSignal that has
\* been aborted dispatches no further 'abort' event.
OnSignal(hs, ab, token, s, l) ==
    IF token = NoToken \/ token \in ab THEN hs ELSE hs \cup {<<token, s, l>>}

\* The 'abort' listeners that the 'abort' event of a token runs.
Fired(hs, token) == {h \in hs : h[1] = token}

\* The subscriptions among them that are in the registry.
Ended(m, hs) == {h \in hs : h[3] \in Registered(m, h[2])}

\* abort(): the registry after the 'abort' listeners hs have run, each of on()
\* calling this.off(signalName, listener).
RECURSIVE AbortListeners(_, _)
AbortListeners(m, hs) ==
    IF hs = {} THEN m
    ELSE LET h == CHOOSE x \in hs : TRUE
         IN AbortListeners(IF h[3] = Rejecter THEN m ELSE OffListeners(m, h[2], h[3]),
                           hs \ {h})

\* abort(): off() deletes the fire-once mark of each listener it is called for.
AbortOnce(f, hs) == [l \in DOMAIN f |-> IF \E h \in hs : h[3] = l THEN FALSE ELSE f[l]]

\* abort(): the 'abort' listener of once() rejects the promise; a settled
\* promise stays as it is.
AbortPromise(p, hs) ==
    IF (\E h \in hs : h[3] = Rejecter) /\ p = <<"pending">> THEN <<"rejected">> ELSE p

\* [EMIT], "Save arguments if necessary": this.#lastArgs?.set(signalName, args).
SaveLastArgs(imm, la, s, a) == IF imm THEN MapSet(la, s, a) ELSE la

\* [EMIT]: const listeners = this.#listeners.get(signalName); if (!listeners) return [false, []].
NoListeners(m, s) == s \notin DOMAIN m

\* [EMIT]: the arguments a listener is invoked with, listener(...args).
InvokeArgs(a) == a

\* A dispatch with no try block around the listener.
ListenerNotCaught == FALSE

\* [EMIT]: try { listener(...args) } catch (e) { return [e] }: a value thrown by
\* a listener is caught and collected.
ListenerCaught == TRUE

\* ---------------------------------------------------------------- SignalController

\* constructor: this.onError = options.onError || console.error.
InitialOnError(opt) == IF opt = "undefined" THEN "console.error" ELSE opt

\* emit(): the callback invoked for an error, this.options.onError?.(error, signalName, args).
ErrorCallback(opt, field) == opt

\* emit(): try { onError?.(...) } catch (e) { console.error(...) }: a value thrown
\* by the callback is caught and the loop goes on.
CallbackCaught == TRUE

\* emit(): for (const error of errors): the errors the loop gets to, when the
\* callback throws at the turns throwsAt.
Reported(errs, throwsAt) ==
    IF CallbackCaught \/ throwsAt = {} THEN Len(errs)
    ELSE CHOOSE i \in throwsAt : \A j \in throwsAt : i <= j

\* A loop that reports the first error and leaves.
ReportsFirstOnly(cb, errs, s, a, n) ==
    IF cb = "undefined" \/ n = 0 THEN <<>> ELSE << <<cb, errs[1], s, a>> >>

\* emit(): the callback invocations made for the errors of a dispatch.
Reports(cb, errs, s, a, n) ==
    IF cb = "undefined" THEN <<>> ELSE [i \in 1..n |-> <<cb, errs[i], s, a>>]

\* An emit that reports whether every listener succeeded.
EmitResultAllSucceeded(calledFlag, errs) ==
    IF calledFlag /\ errs = <<>> THEN "true" ELSE "false"

\* emit(): const [called, errors] = ...; return called.
EmitResult(calledFlag, errs) == IF calledFlag THEN "true" ELSE "false"


\* destroy(): this.emit = () => { console.warn(...); return false }.
EmitReplaced(d) == d

\* A destroy() that leaves emitter.on in place.
OnKept(d) == FALSE

\* destroy(): this.emitter.on = () => { console.warn(...) }.
OnReplaced(d) == d

\* createWritableStream(): write: args => void this.emit(signalName, ...args).
WriteArgs(chunk) == chunk

\* ---------------------------------------------------------------- adapters

\* A value a promise can hold: the whole argument tuple of an emission (an
\* array), or one argument of it.
\* once(): the listener (values) => resolve(values) settles the promise with the
\* first argument of the emission; a settled promise stays as it is.
ArrayValue(a) == [array |-> a]
ItemValue(v) == [item |-> v]
ResolveValue(a) == ItemValue(a[1])

PromiseAfter(l, a, p) ==
    IF l = Resolver /\ p = <<"pending">> THEN <<"resolved", ResolveValue(a)>> ELSE p

\* A stream listener that enqueues its first argument.
EnqueueFirst(a) == <<a[1]>>

\* createReadableStream(): the listener (...args) => controller.enqueue(args).
EnqueueChunk(a) == a

ChunksAfter(l, a, c) == IF l = Enqueuer THEN Append(c, EnqueueChunk(a)) ELSE c

\* ---------------------------------------------------------------- state machine

Init ==
    /\ listeners = EmptyMap
    /\ onceSymbol = [l \in AllListeners |-> FALSE]
    /\ immediate \in BOOLEAN
    /\ lastArgs = EmptyMap
    /\ optionsOnError \in {"undefined", "cb"}
    /\ onError = InitialOnError(optionsOnError)
    /\ destroyed = FALSE
    /\ promise = <<"none">>
    /\ chunks = <<>>
    /\ streamOpen = FALSE
    /\ pc = "idle"
    /\ signalName = NoSignal
    /\ args = NoArgs
    /\ iterIdx = 0
    /\ iterLive = FALSE
    /\ cur = NoListener
    /\ bodyOps = 0
    /\ errors = <<>>
    /\ lastCall = <<"new">>
    /\ ret = "none"
    /\ raised = FALSE
    /\ warned = FALSE
    /\ called = <<>>
    /\ reports = <<>>
    /\ fallback = 0
    /\ replayed = <<>>
    /\ stable = {}
    /\ handlers = {}
    /\ aborted = {}
    /\ recording \in BOOLEAN

\* A call made by the user of the library, outside any listener.
TopLevel == pc = "idle"

\* A call made from the body of a listener of the user during a dispatch.
InBody == pc = "body" /\ cur \in Listeners /\ bodyOps < MaxBodyOps

\* No emit is in progress: no frame, and nothing observed of a dispatch.
NoFrame ==
    /\ pc' = "idle"
    /\ signalName' = NoSignal
    /\ args' = NoArgs
    /\ iterIdx' = 0
    /\ iterLive' = FALSE
    /\ cur' = NoListener
    /\ bodyOps' = 0
    /\ errors' = <<>>
    /\ called' = <<>>
    /\ reports' = <<>>
    /\ fallback' = 0
    /\ stable' = {}

\* A top-level call other than emit: what it leaves of the call before it.
TopLevelCall(call) ==
    /\ TopLevel
    /\ NoFrame
    /\ lastCall' = call
    /\ ret' = "none"

\* A call made from a listener body: what it leaves alone.
BodyCall ==
    /\ InBody
    /\ bodyOps' = IF recording THEN bodyOps + 1 ELSE bodyOps
    /\ UNCHANGED <<pc, signalName, args, cur, errors>>
    /\ UNCHANGED <<lastCall, ret, raised, warned, called, reports, fallback>>

\* SignalEmitter.on, or the replacement of it that destroy() installs: the
\* registry, the fire-once flag, and the inline invocation of immediate mode.
\* p and hs are the promise of once() and the 'abort' listeners as the call
\* finds them, token the AbortSignal of options.signal.
Subscribe(s, l, isOnce, p, hs, token) ==
    IF OnReplaced(destroyed)
    THEN \* console.warn and nothing else
         /\ UNCHANGED <<listeners, onceSymbol, chunks>>
         /\ promise' = p
         /\ handlers' = hs
         /\ replayed' = <<>>
    ELSE /\ listeners' = OnListeners(listeners, s, l)
         /\ onceSymbol' = OnOnce(onceSymbol, l, isOnce)
         /\ handlers' = OnSignal(hs, aborted, token, s, l)
         \* "Handles `immediate` option": listener(...lastArgs), outside any try block
         /\ IF s \in DOMAIN lastArgs
            THEN /\ replayed' = <<l, lastArgs[s]>>
                 /\ promise' = PromiseAfter(l, lastArgs[s], p)
                 /\ chunks' = ChunksAfter(l, lastArgs[s], chunks)
                 /\ Len(chunks') <= MaxChunks
            ELSE /\ replayed' = <<>>
                 /\ promise' = p
                 /\ UNCHANGED chunks

\* emitter.on(signalName, {once, signal}, listener)
OnCall(s, l, isOnce, token) ==
    /\ Subscribe(s, l, isOnce, promise, handlers, token)
    /\ \/ /\ TopLevelCall(<<"on", s, l, isOnce, token>>)
          /\ warned' = OnReplaced(destroyed)
          \* the replayed listener may throw, and on() with it
          /\ \E threw \in BOOLEAN :
                /\ threw => replayed' # <<>>
                /\ raised' = threw
       \/ /\ BodyCall
          /\ UNCHANGED <<iterIdx, iterLive>>
          \* a listener that is in the Set stays where it is: only one that is
          \* added anew is no longer what the dispatch started with
          /\ stable' = IF /\ s = signalName
                          /\ ~OnReplaced(destroyed)
                          /\ l \notin Registered(listeners, s)
                       THEN stable \ {l}
                       ELSE stable
    /\ UNCHANGED <<immediate, lastArgs, optionsOnError, onError, destroyed, streamOpen>>
    /\ UNCHANGED <<aborted, recording>>

\* emitter.on(signalName, {once}, listener)
on(s, l, isOnce) == OnCall(s, l, isOnce, NoToken)

\* emitter.on(signalName, {once, signal}, listener)
onSignal(s, l, isOnce) == OnCall(s, l, isOnce, "signal")

\* emitter.off(signalName, listener)
off(s, l) ==
    /\ onceSymbol' = OffOnce(onceSymbol, l)
    /\ listeners' = OffListeners(listeners, s, l)
    /\ replayed' = <<>>
    /\ \/ /\ TopLevelCall(<<"off", s, l>>)
          /\ warned' = FALSE
          /\ raised' = FALSE
       \/ /\ BodyCall
          /\ IF s = signalName /\ iterLive
             THEN /\ iterIdx' = OffIterIdx(listeners, s, l, iterIdx)
                  /\ iterLive' = (s \in DOMAIN listeners')
             ELSE UNCHANGED <<iterIdx, iterLive>>
          /\ stable' = IF s = signalName THEN stable \ {l} ELSE stable
    /\ UNCHANGED <<immediate, lastArgs, optionsOnError, onError, destroyed>>
    /\ UNCHANGED <<promise, chunks, streamOpen>>
    /\ UNCHANGED <<handlers, aborted, recording>>

\* An iterator that walks the Set from its newest entry to its oldest.
IteratedReversed(m, s, live) ==
    IF live THEN [i \in 1..Len(m[s]) |-> m[s][Len(m[s]) + 1 - i]] ELSE <<>>

\* The Set the iterator of the dispatch walks.  Once emptied and dropped from
\* the Map it gets no further entry: on() then makes a new Set.
Iterated(m, s, live) == IF live THEN m[s] ELSE <<>>

\* The invocation log with the outcome of the body that just ended.
Outcome(log, outcome) ==
    IF Len(log) = 0 THEN log ELSE [log EXCEPT ![Len(log)] = <<@[1], @[2], outcome>>]

\* [EMIT] and emit() from one listener body to the next: the iterator yields the
\* next listener, a fire-once listener is removed with off(), and the listener
\* is invoked; or the iterator is exhausted, EMIT returns [true, errors], emit
\* reports the errors and has its result.  idx, live, log and errs are the
\* iterator, the invocations and the errors so far.
Dispatch(s, a, idx, live, log, errs) ==
    /\ replayed' = <<>>
    /\ errors' = errs
    /\ IF idx < Len(Iterated(listeners, s, live))
       THEN LET l == Iterated(listeners, s, live)[idx + 1]
            IN /\ Len(log) < MaxCalls
               /\ pc' = "body"
               /\ cur' = l
               /\ called' = IF recording THEN Append(log, <<l, InvokeArgs(a), "running">>) ELSE log
               /\ IF onceSymbol[l]
                  THEN /\ onceSymbol' = OffOnce(onceSymbol, l)
                       /\ listeners' = OffListeners(listeners, s, l)
                       /\ iterIdx' = OffIterIdx(listeners, s, l, idx + 1)
                       /\ iterLive' = (s \in DOMAIN listeners')
                  ELSE /\ iterIdx' = idx + 1
                       /\ iterLive' = live
                       /\ UNCHANGED <<onceSymbol, listeners>>
               /\ ret' = "none"
               /\ reports' = <<>>
               /\ fallback' = 0
               /\ raised' = FALSE
       ELSE /\ pc' = "done"
            /\ cur' = NoListener
            /\ called' = log
            /\ iterIdx' = 0
            /\ iterLive' = FALSE
            /\ UNCHANGED <<onceSymbol, listeners>>
            /\ \E throwsAt \in SUBSET (1..Len(errs)) :
                  /\ throwsAt # {} =>
                        ErrorCallback(optionsOnError, onError) \notin {"undefined", "console.error"}
                  /\ reports' = Reports(ErrorCallback(optionsOnError, onError), errs, s, a,
                                        Reported(errs, throwsAt))
                  /\ raised' = (throwsAt # {} /\ ~CallbackCaught)
                  /\ fallback' = IF CallbackCaught THEN Cardinality(throwsAt) ELSE 0
                  /\ ret' = IF raised' THEN "none" ELSE EmitResult(TRUE, errs)

\* SignalController.emit, or the replacement of it that destroy() installs, up
\* to the body of the first listener.
EmitCall(call, s, a) ==
    /\ TopLevel
    /\ lastCall' = call
    /\ bodyOps' = 0
    /\ signalName' = s
    /\ args' = a
    /\ IF EmitReplaced(destroyed) \/ NoListeners(listeners, s)
       THEN /\ IF EmitReplaced(destroyed)
               THEN \* console.warn, return false
                    /\ warned' = TRUE
                    /\ ret' = "false"
                    /\ UNCHANGED lastArgs
               ELSE \* [EMIT] returns [false, []]
                    /\ warned' = FALSE
                    /\ ret' = EmitResult(FALSE, <<>>)
                    /\ lastArgs' = SaveLastArgs(immediate, lastArgs, s, a)
            /\ raised' = FALSE
            /\ pc' = "done"
            /\ cur' = NoListener
            /\ called' = <<>>
            /\ reports' = <<>>
            /\ fallback' = 0
            /\ errors' = <<>>
            /\ iterIdx' = 0
            /\ iterLive' = FALSE
            /\ stable' = {}
            /\ replayed' = <<>>
            /\ UNCHANGED <<listeners, onceSymbol>>
       ELSE /\ warned' = FALSE
            /\ lastArgs' = SaveLastArgs(immediate, lastArgs, s, a)
            /\ stable' = Registered(listeners, s)
            /\ Dispatch(s, a, 0, TRUE, <<>>, <<>>)
    /\ UNCHANGED <<immediate, optionsOnError, onError, destroyed>>
    /\ UNCHANGED <<promise, chunks, streamOpen>>
    /\ UNCHANGED <<handlers, aborted, recording>>

\* controller.emit(signalName, ...args)
emit(s, a) == EmitCall(<<"emit", s, a>>, s, a)

\* The listener body returns, and the dispatch goes on.
listenerReturn ==
    /\ pc = "body"
    /\ promise' = PromiseAfter(cur, args, promise)
    /\ chunks' = ChunksAfter(cur, args, chunks)
    /\ Len(chunks') <= MaxChunks
    /\ Dispatch(signalName, args, iterIdx, iterLive, Outcome(called, "returned"), errors)
    /\ UNCHANGED <<immediate, lastArgs, optionsOnError, onError, destroyed, streamOpen>>
    /\ UNCHANGED <<handlers, aborted, recording>>
    /\ UNCHANGED <<signalName, args, bodyOps>>
    /\ UNCHANGED <<lastCall, warned, stable>>

\* The body of a listener of the user throws: catch (e) { return [e] }, and the
\* dispatch goes on.
listenerThrow ==
    /\ pc = "body"
    /\ cur \in Listeners
    /\ IF ListenerCaught
       THEN Dispatch(signalName, args, iterIdx, iterLive, Outcome(called, "threw"),
                     Append(errors, cur))
       ELSE \* not caught: the exception leaves EMIT and emit
            /\ pc' = "done"
            /\ raised' = TRUE
            /\ called' = Outcome(called, "threw")
            /\ UNCHANGED <<listeners, onceSymbol, iterIdx, iterLive, cur, errors>>
            /\ UNCHANGED <<ret, reports, fallback, replayed>>
    /\ UNCHANGED <<immediate, lastArgs, optionsOnError, onError, destroyed>>
    /\ UNCHANGED <<promise, chunks, streamOpen>>
    /\ UNCHANGED <<handlers, aborted, recording>>
    /\ UNCHANGED <<signalName, args, bodyOps>>
    /\ UNCHANGED <<lastCall, warned, stable>>

\* emit returns to its caller: its frame is gone, its outcome stays.
emitReturn ==
    /\ pc = "done"
    /\ NoFrame
    /\ UNCHANGED <<state, tokens, recording>>
    /\ UNCHANGED <<lastCall, ret, raised, warned, replayed>>

\* createWritableStream(signalName), and a chunk written to the stream.
write(s, chunk) == EmitCall(<<"write", s, chunk>>, s, WriteArgs(chunk))

\* emitter.once(signalName, {signal}): new Promise((resolve, reject) => {
\* signal?.addEventListener('abort', reason => reject(reason));
\* this.on(signalName, {once: true}, resolver) })
OnceCall(s, token) ==
    /\ promise = <<"none">>
    /\ TopLevelCall(<<"once", s>>)
    /\ Subscribe(s, Resolver, TRUE, <<"pending">>,
                 OnSignal(handlers, aborted, token, s, Rejecter), NoToken)
    /\ warned' = OnReplaced(destroyed)
    /\ raised' = FALSE
    /\ UNCHANGED <<immediate, lastArgs, optionsOnError, onError, destroyed, streamOpen>>
    /\ UNCHANGED <<aborted, recording>>

\* emitter.once(signalName)
once(s) == OnceCall(s, NoToken)

\* emitter.once(signalName, {signal})
onceSignal(s) == OnceCall(s, "wait")

\* emitter.createReadableStream(signalName): start() runs in the constructor of
\* the stream and calls this.on(signalName, {signal}, enqueuer).
createReadableStream(s) ==
    /\ ~streamOpen
    /\ streamOpen' = TRUE
    /\ TopLevelCall(<<"createReadableStream", s>>)
    /\ Subscribe(s, Enqueuer, FALSE, promise, handlers, "aborter")
    /\ warned' = OnReplaced(destroyed)
    /\ raised' = FALSE
    /\ UNCHANGED <<immediate, lastArgs, optionsOnError, onError, destroyed>>
    /\ UNCHANGED <<aborted, recording>>

\* AbortController.abort() of a token, called outside a dispatch: the 'abort'
\* event runs the listeners that on() and once() added to its signal, once.
Abort(token) ==
    /\ token \notin aborted
    /\ TopLevelCall(<<"abort", token, Ended(listeners, Fired(handlers, token))>>)
    /\ aborted' = aborted \cup {token}
    /\ handlers' = handlers \ Fired(handlers, token)
    /\ listeners' = AbortListeners(listeners, Fired(handlers, token))
    /\ onceSymbol' = AbortOnce(onceSymbol, Fired(handlers, token))
    /\ promise' = AbortPromise(promise, Fired(handlers, token))
    /\ raised' = FALSE
    /\ warned' = FALSE
    /\ replayed' = <<>>
    /\ UNCHANGED <<immediate, lastArgs, optionsOnError, onError, destroyed>>
    /\ UNCHANGED <<chunks, streamOpen, recording>>

\* The user aborts the AbortController whose signal was given to on().
abort == Abort("signal")

\* The user aborts the AbortController whose signal was given to once().
onceAbort == Abort("wait")

\* The consumer cancels the stream: cancel: reason => aborter.abort(reason).
cancel == streamOpen /\ Abort("aborter")

\* A top-level call of the controller that is not emit.
ControllerCall(call) ==
    /\ TopLevelCall(call)
    /\ raised' = FALSE
    /\ warned' = FALSE
    /\ replayed' = <<>>
    /\ UNCHANGED <<promise, chunks, streamOpen>>
    /\ UNCHANGED <<handlers, aborted, recording>>

\* controller.off(signalName)
controllerOff(s) ==
    /\ ControllerCall(<<"controller.off", s>>)
    /\ listeners' = ClearSignalListeners(listeners, s)
    /\ onceSymbol' = ClearSignalOnce(listeners, onceSymbol, s)
    /\ UNCHANGED <<immediate, lastArgs, optionsOnError, onError, destroyed>>

\* controller.clear()
clear ==
    /\ ControllerCall(<<"clear">>)
    /\ listeners' = ClearAllListeners(listeners)
    /\ onceSymbol' = ClearAllOnce(listeners, onceSymbol)
    /\ UNCHANGED <<immediate, lastArgs, optionsOnError, onError, destroyed>>

\* controller.destroy(): this.clear(), then emit and emitter.on are replaced.
destroy ==
    /\ ControllerCall(<<"destroy">>)
    /\ listeners' = ClearAllListeners(listeners)
    /\ onceSymbol' = ClearAllOnce(listeners, onceSymbol)
    /\ destroyed' = TRUE
    /\ UNCHANGED <<immediate, lastArgs, optionsOnError, onError>>

\* controller.onError = callback, assigned after construction.
setOnError ==
    /\ ControllerCall(<<"onError=">>)
    /\ onError' = "cb2"
    /\ UNCHANGED <<listeners, onceSymbol, immediate, lastArgs, optionsOnError, destroyed>>

Next ==
    \/ \E s \in Signals, l \in Listeners, isOnce \in BOOLEAN : on(s, l, isOnce)
    \/ \E s \in Signals, l \in Listeners : off(s, l)
    \/ \E s \in Signals, a \in Args : emit(s, a)
    \/ listenerReturn
    \/ listenerThrow
    \/ emitReturn
    \/ \E s \in Signals : controllerOff(s)
    \/ clear
    \/ destroy

Spec == Init /\ [][Next]_vars

\* A controller made without the immediate option.
InitPlain == Init /\ immediate = FALSE /\ recording

SpecPlain == InitPlain /\ [][Next]_vars

\* A controller made with or without the immediate option, and no onError
\* callback.
InitModes == Init /\ optionsOnError = "undefined" /\ recording

SpecModes == InitModes /\ [][Next]_vars

\* The public onError field is assigned after construction.
NextOnError ==
    \/ Next
    \/ setOnError

SpecOnError == InitPlain /\ [][NextOnError]_vars

\* One listener of the user, the promise of once() and the two streams, on a
\* controller made with no option.
NextAdapters ==
    \/ \E s \in Signals, isOnce \in BOOLEAN : on(s, "L1", isOnce)
    \/ \E s \in Signals : off(s, "L1")
    \/ \E s \in Signals, a \in Args : emit(s, a)
    \/ \E s \in Signals, a \in Args : write(s, a)
    \/ \E s \in Signals : once(s)
    \/ \E s \in Signals : createReadableStream(s)
    \/ listenerReturn
    \/ listenerThrow
    \/ emitReturn
    \/ \E s \in Signals : controllerOff(s)
    \/ clear
    \/ destroy

InitAdapters == Init /\ immediate = FALSE /\ optionsOnError = "undefined" /\ recording

SpecAdapters == InitAdapters /\ [][NextAdapters]_vars

\* Subscriptions of L1 that end with an AbortSignal, next to plain ones of L1
\* and L2, on a controller made with no option.
NextTokens ==
    \/ \E s \in Signals, l \in Listeners : on(s, l, FALSE)
    \/ \E s \in Signals, isOnce \in BOOLEAN : onSignal(s, "L1", isOnce)
    \/ \E s \in Signals, l \in Listeners : off(s, l)
    \/ abort
    \/ \E s \in Signals, a \in Args : emit(s, a)
    \/ listenerReturn
    \/ listenerThrow
    \/ emitReturn

InitTokens == Init /\ immediate = FALSE /\ optionsOnError = "undefined" /\ recording

SpecTokens == InitTokens /\ [][NextTokens]_vars

\* The promise of once() with its AbortSignal, next to one listener of the
\* user, on a controller made with no option.
NextWait ==
    \/ \E s \in Signals, isOnce \in BOOLEAN : on(s, "L1", isOnce)
    \/ \E s \in Signals : off(s, "L1")
    \/ \E s \in Signals, a \in Args : emit(s, a)
    \/ \E s \in Signals : onceSignal(s)
    \/ onceAbort
    \/ listenerReturn
    \/ listenerThrow
    \/ emitReturn
    \/ \E s \in Signals : controllerOff(s)

InitWait == Init /\ immediate = FALSE /\ optionsOnError = "undefined" /\ recording

SpecWait == InitWait /\ [][NextWait]_vars

\* The stream of createReadableStream() with its cancellation, next to one
\* listener of the user, with or without the immediate option.
NextStreams ==
    \/ \E s \in Signals : on(s, "L1", FALSE)
    \/ \E s \in Signals, a \in Args : emit(s, a)
    \/ \E s \in Signals : createReadableStream(s)
    \/ cancel
    \/ listenerReturn
    \/ listenerThrow
    \/ emitReturn
    \/ \E s \in Signals : controllerOff(s)
    \/ destroy

InitStreams == Init /\ optionsOnError = "undefined" /\ recording

SpecStreams == InitStreams /\ [][NextStreams]_vars

\* Every way a listener leaves the registry: off, the removal of a fire-once
\* listener by a dispatch, the cancellation of a token, controller.off, clear
\* and destroy, on a controller made with no option.
NextRegistry ==
    \/ NextTokens
    \/ \E s \in Signals : controllerOff(s)
    \/ clear
    \/ destroy

InitRegistry == Init /\ immediate = FALSE /\ optionsOnError = "undefined" /\ recording

SpecRegistry == InitRegistry /\ [][NextRegistry]_vars

\* Dispatches of any length: the invocations of a dispatch are not logged and
\* the calls of a body are not counted, and every listener body returns.
NextLoop ==
    \/ \E s \in Signals, l \in Listeners, isOnce \in BOOLEAN : on(s, l, isOnce)
    \/ \E s \in Signals, l \in Listeners : off(s, l)
    \/ \E s \in Signals, a \in Args : emit(s, a)
    \/ listenerReturn
    \/ emitReturn

InitLoop == Init /\ immediate = FALSE /\ optionsOnError = "undefined" /\ ~recording

SpecLoop == InitLoop /\ [][NextLoop]_vars /\ WF_vars(listenerReturn)

\* ---------------------------------------------------------------- properties

\* The turns of the dispatch at which listener l was invoked.
Turns(l) == {i \in 1..Len(called) : called[i][1] = l}

\* The invocations of the dispatch that ended with the listener throwing.
Threw == SelectSeq(called, LAMBDA e : e[3] = "threw")

\* emit, called on a controller that is not destroyed, has its outcome.
EmitDone == pc = "done" /\ ~warned

\* C1: on an active controller, a listener subscribed to S (and not passed to
\* on or off by a listener body during the dispatch) has been invoked exactly
\* once, with the emitted arguments, when emit(S, A) has its result, and that
\* result is true; so with two listeners subscribed both were invoked once.
C1_SubscribedInvokedOnce ==
    EmitDone =>
        /\ \A l \in stable :
              /\ Cardinality(Turns(l)) = 1
              /\ \A i \in Turns(l) : called[i][2] = args
        /\ stable # {} => ret = "true"

C1_Witness ==
    /\ EmitDone
    /\ stable = {"L1", "L2"}
    /\ Len(called) = 2
    /\ ret = "true"

\* C2: whatever listeners throw and whatever the onError callback throws, emit
\* ends with a boolean and never with an exception, every listener that stayed
\* subscribed was invoked, and every collected error was reported.
C2_NothingEscapesEmit ==
    pc = "done" =>
        /\ ~raised
        /\ ret \in {"true", "false"}
        /\ \A l \in stable : Turns(l) # {}
        /\ optionsOnError = "cb" => Len(reports) = Len(Threw)

C2_Witness ==
    /\ pc = "done"
    /\ Len(called) = 2
    /\ called[1][3] = "threw"
    /\ called[2][3] = "threw"
    /\ stable = {"L1", "L2"}
    /\ fallback = 2
    /\ Len(reports) = 2
    /\ ret = "true"

C4_ReportedThroughCurrentOnError ==
    EmitDone =>
        /\ Len(reports) = Len(Threw)
        /\ \A i \in 1..Len(reports) : reports[i][1] = onError

\* C5: once clear() has returned, no listener is registered for any signal.
C5_ClearEmptiesRegistry ==
    lastCall = <<"clear">> => \A s \in Signals : Registered(listeners, s) = {}

\* C6: once the controller is destroyed it stays destroyed, and every later call
\* leaves the registry without a new listener, raises nothing and starts no
\* listener; an emit or a stream write ends with false and no invocation.
C6_DestroyIsTerminal ==
    [][destroyed =>
         /\ destroyed'
         /\ \A s \in Signals : Registered(listeners', s) \subseteq Registered(listeners, s)
         /\ ~raised'
         /\ pc' # "body"
         /\ replayed' = <<>>
         /\ pc' = "done" => (ret' = "false" /\ called' = <<>>)]_vars

C6_Witness ==
    /\ destroyed
    /\ pc = "done"
    /\ lastCall[1] = "write"
    /\ ret = "false"
    /\ called = <<>>
    /\ promise = <<"pending">>
    /\ streamOpen
    /\ Registered(listeners, signalName) = {"L1"}

\* C7: in every state of a destroyed controller the registry is empty for every
\* signal.
C7_DestroyedRegistryEmpty ==
    destroyed => \A s \in Signals : Registered(listeners, s) = {}

\* C8: a listener subscribed with once: true that on() has just invoked, with the
\* recorded arguments of immediate mode, has had its one invocation and is
\* absent from the registry of the signal.
C8_OnceAbsentAfterInvocation ==
    (lastCall[1] = "on" /\ lastCall[4] /\ replayed # <<>>) =>
        lastCall[3] \notin Registered(listeners, lastCall[2])

\* What C9 says of a state, on a controller in the given condition: during and
\* after emit(S, A) in immediate mode A is the recorded entry of S; right after
\* on(S, L) the inline invocation is that of L with the recorded entry of S, and
\* there is none when S has no entry; without immediate mode there is never one.
Replay(condition) ==
    /\ (immediate /\ pc # "idle" /\ condition) =>
           (signalName \in DOMAIN lastArgs /\ lastArgs[signalName] = args)
    /\ (lastCall[1] = "on" /\ condition) =>
           replayed = IF lastCall[2] \in DOMAIN lastArgs
                      THEN <<lastCall[3], lastArgs[lastCall[2]]>>
                      ELSE <<>>
    /\ ~immediate => (replayed = <<>> /\ lastArgs = EmptyMap)

\* The recorded arguments change only when emit is called, and then only the
\* entry of the emitted signal, to the emitted arguments.
RecordedByEmitOnly ==
    lastArgs' # lastArgs =>
        /\ pc = "idle" /\ pc' # "idle"
        /\ lastArgs' = MapSet(lastArgs, signalName', args')

\* C9, on a controller that is not destroyed: in immediate mode every
\* emit(S, A) records A for S, listener or not, and nothing else changes the
\* record, so that on(S, L) invokes L inline with the arguments of the most
\* recent emit(S, ...), and does not invoke it when S was never emitted; without
\* immediate mode on never invokes L.
C9_ReplayOnActive == [](Replay(~destroyed)) /\ [][RecordedByEmitOnly]_vars

C9_Witness ==
    /\ immediate
    /\ ~destroyed
    /\ lastCall[1] = "on"
    /\ replayed = <<"L1", <<2, 3>>>>
    /\ lastArgs[lastCall[2]] = <<2, 3>>
    /\ Registered(listeners, lastCall[2]) = {"L1", "L2"}

\* C9 as stated, for every emit and every on, destroyed controller or not.
C9_ReplayAlways == Replay(TRUE)

\* C10: emit on a controller that is not destroyed, at the call: with no
\* listener registered for the signal it is over at once with false, no
\* invocation, and no change but the recorded arguments of immediate mode; with
\* one registered, a listener is invoked.
EmitAtCall ==
    (pc = "idle" /\ pc' # "idle" /\ ~destroyed) =>
        IF Registered(listeners, signalName') = {}
        THEN /\ pc' = "done"
             /\ ret' = "false"
             /\ called' = <<>>
             /\ reports' = <<>>
             /\ UNCHANGED <<listeners, onceSymbol, immediate, optionsOnError, onError, destroyed>>
             /\ UNCHANGED <<promise, chunks, streamOpen>>
             /\ lastArgs' = IF immediate THEN MapSet(lastArgs, signalName', args') ELSE lastArgs
        ELSE /\ pc' = "body"
             /\ called' # <<>>

\* C10: emit on a controller that is not destroyed returns true exactly when a
\* listener was registered for the signal at the call, which is when it invoked
\* one, whether or not listeners threw; with none registered it returns false
\* and changes nothing but the recorded arguments of immediate mode.
C10_TrueIffListenerAtCall ==
    /\ []((pc = "done" /\ ~destroyed) =>
            /\ ~raised
            /\ ret = (IF called # <<>> THEN "true" ELSE "false"))
    /\ []((pc = "body") => called # <<>>)
    /\ [][EmitAtCall]_vars

C10_Witness ==
    /\ pc = "done"
    /\ ~destroyed
    /\ ret = "true"
    /\ Len(called) = 2
    /\ called[1][3] = "threw"
    /\ called[2][3] = "threw"
    /\ immediate
    /\ lastArgs[signalName] = args

\* The Set of every signal holds a listener once.
NoDuplicates ==
    \A s \in DOMAIN listeners : Cardinality(Members(listeners[s])) = Len(listeners[s])

\* on(S, L), called outside a dispatch on a controller that is not destroyed,
\* for a listener that is registered for S.
Resubscribed ==
    /\ pc = "idle"
    /\ ~destroyed
    /\ lastCall'[1] = "on"
    /\ lastCall'[3] \in Registered(listeners, lastCall'[2])

\* C11: a listener is in the Set of a signal at most once; on(S, L) for a
\* listener that is registered for S leaves the registry as it is; and a
\* listener that was registered at the call of emit and was not removed during
\* the dispatch, however often it was subscribed again, has been invoked exactly
\* once when emit has its result.
C11_SubscriptionIdempotent ==
    /\ []NoDuplicates
    /\ [][Resubscribed => listeners' = listeners]_vars
    /\ [](EmitDone => \A l \in stable : Cardinality(Turns(l)) = 1)

\* L1, alone on the signal, subscribed itself again with once: true from its own
\* body, and the emission is over with one invocation.
C11_Witness ==
    /\ EmitDone
    /\ bodyOps = 1
    /\ onceSymbol["L1"]
    /\ stable = {"L1"}
    /\ listeners = (signalName :> <<"L1">>)
    /\ Len(called) = 1

\* C12: off(S, L), called outside a dispatch for a listener that is not
\* registered for S, raises nothing and changes neither the registry nor the
\* fire-once flag of any listener, which is all a later emit reads.
C12_OffUnregisteredIsNoOp ==
    [][(/\ pc = "idle"
        /\ lastCall'[1] = "off"
        /\ lastCall'[3] \notin Registered(listeners, lastCall'[2]))
       => (listeners' = listeners /\ onceSymbol' = onceSymbol /\ ~raised')]_vars

\* controller.off(S), called outside a dispatch: S has no Set any more, and the
\* Set of every other signal is what it was.
ClearedSignal ==
    (pc = "idle" /\ lastCall'[1] = "controller.off") =>
        /\ lastCall'[2] \notin DOMAIN listeners'
        /\ \A t \in Signals \ {lastCall'[2]} :
              /\ t \in DOMAIN listeners' <=> t \in DOMAIN listeners
              /\ t \in DOMAIN listeners => listeners'[t] = listeners[t]

\* emit(S) as the call that follows controller.off(S): false, no invocation.
EmitAfterCleared ==
    (/\ pc = "idle"
     /\ lastCall[1] = "controller.off"
     /\ pc' # "idle"
     /\ signalName' = lastCall[2])
    => (pc' = "done" /\ ret' = "false" /\ called' = <<>>)

\* C17: controller.off(S) leaves no listener registered for S, so that the next
\* emit(S) invokes none and returns false, and leaves the listener Set of every
\* other signal unchanged.
C17_ControllerOffClearsOneSignal == [][ClearedSignal /\ EmitAfterCleared]_vars

\* controller.off(s1) has returned on a controller that has L1 and L2 on s2:
\* s1 has no Set, and the Set of s2 is intact.
C17_Witness ==
    /\ pc = "idle"
    /\ lastCall = <<"controller.off", "s1">>
    /\ listeners = ("s2" :> <<"L1", "L2">>)

\* C19: within one emit every listener is invoked at most once, and a listener
\* that was registered from the call to the end has been invoked exactly once
\* when emit has its result.
C19_AtMostOncePerEmit ==
    /\ \A l \in Listeners : Cardinality(Turns(l)) <= 1
    /\ EmitDone => \A l \in stable : Cardinality(Turns(l)) = 1

\* C20: a listener that has just been subscribed to S without the once option,
\* on a controller that is not destroyed, is still registered for S while the
\* next emit(S) invokes it.
C20_PlainSubscriptionStays ==
    [][(/\ pc = "idle"
        /\ ~destroyed
        /\ lastCall[1] = "on"
        /\ ~lastCall[4]
        /\ pc' = "body"
        /\ signalName' = lastCall[2]
        /\ cur' = lastCall[3])
       => lastCall[3] \in Registered(listeners', lastCall[2])]_vars

\* AbortController.abort() of the token given to on(), as a step.
TokenAbort ==
    /\ pc = "idle"
    /\ "signal" \notin aborted
    /\ lastCall'[1] = "abort"
    /\ lastCall'[2] = "signal"

\* A step that invokes a listener from the dispatch.
Invocation == pc' = "body" /\ (pc = "idle" \/ called' # called)

\* C13: a subscription made with a token that is not yet cancelled is tied to
\* the token; when the token is cancelled, every listener subscribed with it,
\* however long ago and whether or not its signal was ever emitted, is out of
\* the registry of its signal; and a dispatch invokes only listeners that are
\* in the registry, so none of them until it is subscribed again.
C13_CancelledSubscriptionRemoved ==
    /\ []((/\ pc = "idle"
           /\ lastCall[1] = "on"
           /\ lastCall[5] = "signal"
           /\ ~warned
           /\ "signal" \notin aborted)
          => <<"signal", lastCall[2], lastCall[3]>> \in handlers)
    /\ [][TokenAbort =>
            \A h \in Fired(handlers, "signal") : h[3] \notin Registered(listeners', h[2])]_vars
    /\ [][Invocation => cur' \in Registered(listeners, signalName')]_vars

\* The token has been cancelled: the subscriptions of L1 to s1 and to s2 that
\* were made with it are ended, and L2 is still registered for s1.
C13_Witness ==
    /\ lastCall = <<"abort", "signal", {<<"signal", "s1", "L1">>, <<"signal", "s2", "L1">>}>>
    /\ listeners = ("s1" :> <<"L2">>)
    /\ aborted = {"signal"}

\* C14: the promise of once(S), resolved by the emission that invoked its
\* listener, holds the argument tuple of that emission, and its listener is in
\* no registry any more.
C14_ResolvedWithArgumentTuple ==
    promise[1] = "resolved" =>
        /\ Turns(Resolver) # {} => promise[2] = ArrayValue(args)
        /\ \A s \in Signals : Resolver \notin Registered(listeners, s)

\* C15: once the token of once(S, {signal}) has been cancelled with the promise
\* pending, the promise is rejected and the listener of once() is in no
\* registry.
C15_AbortedWaitUnsubscribes ==
    promise = <<"rejected">> => \A s \in Signals : Resolver \notin Registered(listeners, s)

\* The stream exists and has not been cancelled.
StreamLive == streamOpen /\ "aborter" \notin aborted

\* An element enters the queue of the stream only with an invocation of its
\* listener by an emission, and is the argument tuple of that emission; or, in
\* immediate mode, with the creation of the stream, and is then the recorded
\* arguments of its signal.
Enqueued ==
    chunks' # chunks =>
        \/ /\ pc = "body"
           /\ cur = Enqueuer
           /\ chunks' = Append(chunks, args)
        \/ /\ pc = "idle"
           /\ lastCall'[1] = "createReadableStream"
           /\ immediate
           /\ lastCall'[2] \in DOMAIN lastArgs
           /\ chunks' = <<lastArgs[lastCall'[2]]>>

\* createReadableStream(S) on a controller that is not destroyed registers the
\* listener of the stream for S.
StreamCreated ==
    (pc = "idle" /\ ~destroyed /\ lastCall'[1] = "createReadableStream") =>
        Enqueuer \in Registered(listeners', lastCall'[2])

C18_EmitReturns == (pc = "body") ~> (pc = "done")

\* C21: in every state, between calls and in the middle of a dispatch, the
\* registry has an entry for a signal exactly when at least one listener is
\* registered for it: no signal maps to an empty Set.
C21_NoEmptyListenerSet ==
    /\ DOMAIN listeners \subseteq Signals
    /\ \A s \in Signals : s \in DOMAIN listeners <=> Registered(listeners, s) # {}

\* In the middle of a dispatch of s1 its only listener, L1, has removed itself
\* from its body: s1 has no entry any more, and s2 still has its own.
C21_Witness ==
    /\ pc = "body"
    /\ signalName = "s1"
    /\ cur = "L1"
    /\ ~onceSymbol["L1"]
    /\ bodyOps = 1
    /\ stable = {}
    /\ listeners = ("s2" :> <<"L2">>)

\* The listeners invoked by the dispatch so far, in the order of invocation.
Invoked == [i \in 1..Len(called) |-> called[i][1]]

\* on(S, L) between calls on a controller that is not destroyed: a listener
\* that is registered for S keeps the Set as it is, and one that is not is
\* put behind every listener the Set holds.
InsertedLast ==
    (pc = "idle" /\ ~destroyed /\ lastCall'[1] = "on") =>
        LET s == lastCall'[2]
            l == lastCall'[3]
        IN IF l \in Registered(listeners, s)
           THEN listeners'[s] = listeners[s]
           ELSE listeners'[s] = Append(IF s \in DOMAIN listeners THEN listeners[s] ELSE <<>>, l)

\* off(S, L) between calls keeps the order of the listeners that stay.
RemovedInPlace ==
    (pc = "idle" /\ lastCall'[1] = "off" /\ lastCall'[2] \in DOMAIN listeners') =>
        listeners'[lastCall'[2]] = SetDelete(listeners[lastCall'[2]], lastCall'[3])

\* Of two listeners the dispatch has invoked, that were registered at the call
\* and have not been removed or added by a listener body since, and that are
\* still registered, the one invoked first is the one inserted first.
InvokedInSetOrder ==
    \A i, j \in 1..Len(called) :
        (/\ i < j
         /\ {Invoked[i], Invoked[j]} \subseteq stable
         /\ {Invoked[i], Invoked[j]} \subseteq Registered(listeners, signalName))
        => Pos(listeners[signalName], Invoked[i]) < Pos(listeners[signalName], Invoked[j])

\* C22: the Set of a signal is in insertion order (on puts a new listener
\* last, leaves a registered one where it is, and off keeps the order of the
\* others, so a listener that is removed and subscribed again is behind those
\* subscribed in the meantime), and a dispatch invokes in the order of the Set:
\* an emission whose listeners changed nothing has invoked exactly the
\* listeners of the Set, first to last.
C22_DispatchInInsertionOrder ==
    /\ [][InsertedLast /\ RemovedInPlace]_vars
    /\ []InvokedInSetOrder
    /\ []((/\ EmitDone
           /\ bodyOps = 0
           /\ stable # {}
           /\ stable = Registered(listeners, signalName))
          => Invoked = listeners[signalName])

\* An emission of s1, whose Set holds L2 before L1, has invoked L2 and then
\* L1, and no listener body has made a call.
C22_Witness ==
    /\ EmitDone
    /\ signalName = "s1"
    /\ bodyOps = 0
    /\ listeners = ("s1" :> <<"L2", "L1">>)
    /\ Invoked = <<"L2", "L1">>


====
